---------------------------- MODULE Spec2Model ----------------------------
(***************************************************************************)
(* A model of fbseries: the league table and its file format              *)
(* (fbseries/model.py), the ranking key and the team panel                 *)
(* (fbseries/controller.py) and the completion of a typed name             *)
(* (fbseries/autocomplete.py).                                             *)
(*                                                                         *)
(* A team name is a Python str, modelled as the sequence of its code       *)
(* points, so that == is case-sensitive and < is Python's lexicographic    *)
(* order.  A Team instance is a record of its attributes plus obj, the     *)
(* identity of the instance: two rows with the same obj are the same       *)
(* Python object appearing twice in Table.rows.                            *)
(***************************************************************************)
EXTENDS Integers, Sequences, FiniteSets, TLC

VARIABLES
    rows,       \* Table.rows: the list of Team instances
    op,         \* the Table operation that ran last
    raised,     \* the exception that operation raised, "none" if it returned
    ret,        \* <<value>> when the operation returned a value, else <<>>
    fname,      \* Table.fname: the table's own file name
    disk,       \* the files of the working directory, by path
    query,      \* the text typed into the name entry
    word_list,  \* the candidates given to autocomplete
    values,     \* the arguments given to isposint
    game_panel  \* the texts of the four entries of the game panel

vars == <<rows, op, raised, ret, fname, disk, query, word_list, values, game_panel>>

---------------------------------------------------------------------------
(* Bounds of the model *)

\* longest table Spec builds
MaxRows == 2
\* largest stat Spec passes to Team(...), largest scored or conceded it keeps
MaxStat == 1
\* largest wins + draws + losses a record of Spec reaches
MaxGames == 1
\* largest number of goals one side scores in one game
MaxGoals == 1

\* longest table SpecSort builds
MaxSortRows == 3
\* largest wins, draws, scored and conceded SpecSort passes to Team(...)
MaxWins == 1
MaxDraws == 1
MaxScored == 1
MaxConceded == 2

\* "A", "AB", "a"
Names == {<<65>>, <<65, 66>>, <<97>>}

StatArgs == 0..MaxStat
Goals == 0..MaxGoals

---------------------------------------------------------------------------
(* Team *)

\* Team.games
games(t) == t.wins + t.draws + t.losses

\* Team.points with two points for a win
points_two_per_win(t) == t.wins * 2 + t.draws

\* Team.points
points(t) == t.wins * 3 + t.draws

\* Team.goal_diff
goal_diff(t) == t.scored - t.conceded

\* Team.__init__ taking any number of stats other than 5 as none
Team_any_arity(name, args) ==
    [raised |-> "none",
     team |-> [obj |-> 0, name |-> name,
               wins |-> IF Len(args) = 5 THEN args[1] ELSE 0,
               draws |-> IF Len(args) = 5 THEN args[2] ELSE 0,
               losses |-> IF Len(args) = 5 THEN args[3] ELSE 0,
               scored |-> IF Len(args) = 5 THEN args[4] ELSE 0,
               conceded |-> IF Len(args) = 5 THEN args[5] ELSE 0]]

\* Team.__init__(name, *args): the new instance, or the exception raised.
\* The stats are ints here, and int(v) of an int is v.
Team(name, args) ==
    IF Len(args) = 5
    THEN [raised |-> "none",
          team |-> [obj |-> 0, name |-> name, wins |-> args[1],
                    draws |-> args[2], losses |-> args[3],
                    scored |-> args[4], conceded |-> args[5]]]
    ELSE IF Len(args) # 0
    THEN [raised |-> "TypeError",
          team |-> [obj |-> 0, name |-> name, wins |-> 0, draws |-> 0,
                    losses |-> 0, scored |-> 0, conceded |-> 0]]
    ELSE [raised |-> "none",
          team |-> [obj |-> 0, name |-> name, wins |-> 0, draws |-> 0,
                    losses |-> 0, scored |-> 0, conceded |-> 0]]

\* what the records of rs hold, without the identity of the instances
Values(rs) ==
    [i \in 1..Len(rs) |-> <<rs[i].name, rs[i].wins, rs[i].draws,
                            rs[i].losses, rs[i].scored, rs[i].conceded>>]

---------------------------------------------------------------------------
(* Object identity *)

\* the first position of rs that holds the instance at position i
FirstRef(rs, i) == CHOOSE j \in 1..i :
    /\ rs[j].obj = rs[i].obj
    /\ \A k \in 1..(j - 1) : rs[k].obj # rs[i].obj

\* name every instance by the first position that refers to it
Canon(rs) == [i \in 1..Len(rs) |-> [rs[i] EXCEPT !.obj = FirstRef(rs, i)]]

---------------------------------------------------------------------------
(* str and tuple comparison *)

RECURSIVE StrLess(_, _)
\* Python a < b on str: lexicographic by code point, a proper prefix is less
StrLess(a, b) ==
    IF b = <<>> THEN FALSE
    ELSE IF a = <<>> THEN TRUE
    ELSE IF Head(a) # Head(b) THEN Head(a) < Head(b)
    ELSE StrLess(Tail(a), Tail(b))

\* Python k1 < k2 on the 4-tuples sortf returns
KeyLess(k1, k2) ==
    \/ k1[1] < k2[1]
    \/ /\ k1[1] = k2[1]
       /\ \/ k1[2] < k2[2]
          \/ /\ k1[2] = k2[2]
             /\ \/ k1[3] < k2[3]
                \/ /\ k1[3] = k2[3]
                   /\ StrLess(k1[4], k2[4])

\* sortf with scored goals ranked above the goal difference
sortf_scored_first(x) == <<-points(x), -x.scored, -goal_diff(x), x.name>>

\* sortf with the goal difference ranked above the points
sortf_goal_diff_first(x) == <<-goal_diff(x), -points(x), -x.scored, x.name>>

\* sortf without the name as last key
sortf_no_name(x) == <<-points(x), -goal_diff(x), -x.scored, <<>>>>

\* sortf(x): the ranking key
sortf(x) == <<-points(x), -goal_diff(x), -x.scored, x.name>>

---------------------------------------------------------------------------
(* Table *)

RECURSIVE find_from(_, _, _)
\* the loop of Table.find: the first position >= i whose name is name, else 0
find_from(rs, name, i) ==
    IF i > Len(rs) THEN 0
    ELSE IF rs[i].name = name THEN i
    ELSE find_from(rs, name, i + 1)

\* str.lower() on the code points of A..Z
Lower(str) == [i \in 1..Len(str) |->
                 IF str[i] >= 65 /\ str[i] <= 90 THEN str[i] + 32 ELSE str[i]]

\* Table.find comparing the names without regard to case
find_nocase(rs, name) ==
    IF \E i \in 1..Len(rs) : Lower(rs[i].name) = Lower(name)
    THEN CHOOSE i \in 1..Len(rs) :
            /\ Lower(rs[i].name) = Lower(name)
            /\ \A k \in 1..(i - 1) : Lower(rs[k].name) # Lower(name)
    ELSE 0

\* Table.find(name): the position of the item returned, 0 for LookupError
find(rs, name) == find_from(rs, name, 1)

\* Table.add(name, *args)
add(rs, name, args) ==
    LET new_item == Team(name, args)
    IN  IF new_item.raised # "none"
        THEN [raised |-> new_item.raised, rows |-> rs]
        ELSE [raised |-> "none", rows |-> Append(rs, new_item.team)]

\* Table.add(item) with a Team instance
add_instance(rs, item) == [raised |-> "none", rows |-> Append(rs, item)]

\* Table.__setitem__(index, item), index a Python (0-based, maybe negative) int
setitem(rs, index, item) ==
    IF index = Len(rs)
    THEN [raised |-> "none", rows |-> Append(rs, item)]
    ELSE IF index >= 0 /\ index < Len(rs)
    THEN [raised |-> "none", rows |-> [rs EXCEPT ![index + 1] = item]]
    ELSE IF index < 0 /\ -index <= Len(rs)
    THEN [raised |-> "none", rows |-> [rs EXCEPT ![Len(rs) + index + 1] = item]]
    ELSE [raised |-> "IndexError", rows |-> rs]

RECURSIVE insort(_, _)
\* put the pair x = <<key, item>> after every pair of the sorted s whose key
\* is not greater
insort(s, x) ==
    IF s = <<>> THEN <<x>>
    ELSE IF KeyLess(x[1], Head(s)[1]) THEN <<x>> \o s
    ELSE <<Head(s)>> \o insort(Tail(s), x)

RECURSIVE sorted_prefix(_, _)
\* the first n pairs of ks in ascending key order, equal keys in list order
sorted_prefix(ks, n) ==
    IF n = 0 THEN <<>>
    ELSE insort(sorted_prefix(ks, n - 1), ks[n])

\* the key of every item of rs, as table.sort(sortf) computes them
sortf_keys(rs) == [i \in 1..Len(rs) |-> sortf(rs[i])]

\* Table.sort(key): list.sort(key=key) computes the key of every item once
\* (keys[i] for rs[i]) and sorts the items by it, ascending and stable
sort(rs, keys) ==
    LET keyed == [i \in 1..Len(rs) |-> <<keys[i], rs[i]>>]
        sorted == sorted_prefix(keyed, Len(keyed))
    IN  [i \in 1..Len(rs) |-> sorted[i][2]]

---------------------------------------------------------------------------
(* game *)

\* attribute updates on the instance o, seen through every row that holds it
bump(rs, o, dw, dd, dl, ds, dc) ==
    [i \in 1..Len(rs) |->
        IF rs[i].obj = o
        THEN [rs[i] EXCEPT !.wins = @ + dw, !.draws = @ + dd,
                           !.losses = @ + dl, !.scored = @ + ds,
                           !.conceded = @ + dc]
        ELSE rs[i]]

\* game counting a draw as a home win
game_draw_is_win(rs, hometeam, awayteam, homegoals, awaygoals) ==
    LET i1 == find(rs, hometeam)
        i2 == find(rs, awayteam)
    IN  IF i1 = 0 \/ i2 = 0
        THEN [raised |-> "LookupError", rows |-> rs]
        ELSE
        LET team_1 == rs[i1].obj
            team_2 == rs[i2].obj
            r1 == IF homegoals >= awaygoals
                  THEN bump(bump(rs, team_1, 1, 0, 0, 0, 0),
                            team_2, 0, 0, 1, 0, 0)
                  ELSE bump(bump(rs, team_1, 0, 0, 1, 0, 0),
                            team_2, 1, 0, 0, 0, 0)
            r2 == bump(r1, team_1, 0, 0, 0, homegoals, awaygoals)
            r3 == bump(r2, team_2, 0, 0, 0, awaygoals, homegoals)
        IN  [raised |-> "none", rows |-> r3]

\* game crediting each side with the goals of the other
game_goals_swapped(rs, hometeam, awayteam, homegoals, awaygoals) ==
    LET i1 == find(rs, hometeam)
        i2 == find(rs, awayteam)
    IN  IF i1 = 0 \/ i2 = 0
        THEN [raised |-> "LookupError", rows |-> rs]
        ELSE
        LET team_1 == rs[i1].obj
            team_2 == rs[i2].obj
            r1 == IF homegoals = awaygoals
                  THEN bump(bump(rs, team_1, 0, 1, 0, 0, 0),
                            team_2, 0, 1, 0, 0, 0)
                  ELSE IF homegoals > awaygoals
                  THEN bump(bump(rs, team_1, 1, 0, 0, 0, 0),
                            team_2, 0, 0, 1, 0, 0)
                  ELSE bump(bump(rs, team_1, 0, 0, 1, 0, 0),
                            team_2, 1, 0, 0, 0, 0)
            r2 == bump(r1, team_1, 0, 0, 0, awaygoals, homegoals)
            r3 == bump(r2, team_2, 0, 0, 0, homegoals, awaygoals)
        IN  [raised |-> "none", rows |-> r3]

\* game looking up the away team only after it has updated the home team
game_late_lookup(rs, hometeam, awayteam, homegoals, awaygoals) ==
    LET i1 == find(rs, hometeam)
        i2 == find(rs, awayteam)
    IN  IF i1 = 0
        THEN [raised |-> "LookupError", rows |-> rs]
        ELSE
        LET team_1 == rs[i1].obj
            h1 == IF homegoals = awaygoals
                  THEN bump(rs, team_1, 0, 1, 0, 0, 0)
                  ELSE IF homegoals > awaygoals
                  THEN bump(rs, team_1, 1, 0, 0, 0, 0)
                  ELSE bump(rs, team_1, 0, 0, 1, 0, 0)
            h2 == bump(h1, team_1, 0, 0, 0, homegoals, awaygoals)
        IN  IF i2 = 0
            THEN [raised |-> "LookupError", rows |-> h2]
            ELSE
            LET team_2 == rs[i2].obj
                a1 == IF homegoals = awaygoals
                      THEN bump(h2, team_2, 0, 1, 0, 0, 0)
                      ELSE IF homegoals > awaygoals
                      THEN bump(h2, team_2, 0, 0, 1, 0, 0)
                      ELSE bump(h2, team_2, 1, 0, 0, 0, 0)
            IN  [raised |-> "none",
                 rows |-> bump(a1, team_2, 0, 0, 0, awaygoals, homegoals)]

\* game updating a record that is both home and away only as the home team
game_self_once(rs, hometeam, awayteam, homegoals, awaygoals) ==
    LET i1 == find(rs, hometeam)
        i2 == find(rs, awayteam)
    IN  IF i1 = 0 \/ i2 = 0
        THEN [raised |-> "LookupError", rows |-> rs]
        ELSE
        LET team_1 == rs[i1].obj
            team_2 == rs[i2].obj
            h1 == IF homegoals = awaygoals
                  THEN bump(rs, team_1, 0, 1, 0, 0, 0)
                  ELSE IF homegoals > awaygoals
                  THEN bump(rs, team_1, 1, 0, 0, 0, 0)
                  ELSE bump(rs, team_1, 0, 0, 1, 0, 0)
            h2 == bump(h1, team_1, 0, 0, 0, homegoals, awaygoals)
            a1 == IF homegoals = awaygoals
                  THEN bump(h2, team_2, 0, 1, 0, 0, 0)
                  ELSE IF homegoals > awaygoals
                  THEN bump(h2, team_2, 0, 0, 1, 0, 0)
                  ELSE bump(h2, team_2, 1, 0, 0, 0, 0)
        IN  [raised |-> "none",
             rows |-> IF team_1 = team_2 THEN h2
                      ELSE bump(a1, team_2, 0, 0, 0, awaygoals, homegoals)]

\* game recording the win of the winner but no loss for the loser
game_no_loss(rs, hometeam, awayteam, homegoals, awaygoals) ==
    LET i1 == find(rs, hometeam)
        i2 == find(rs, awayteam)
    IN  IF i1 = 0 \/ i2 = 0
        THEN [raised |-> "LookupError", rows |-> rs]
        ELSE
        LET team_1 == rs[i1].obj
            team_2 == rs[i2].obj
            r1 == IF homegoals = awaygoals
                  THEN bump(bump(rs, team_1, 0, 1, 0, 0, 0),
                            team_2, 0, 1, 0, 0, 0)
                  ELSE IF homegoals > awaygoals
                  THEN bump(rs, team_1, 1, 0, 0, 0, 0)
                  ELSE bump(rs, team_2, 1, 0, 0, 0, 0)
            r2 == bump(r1, team_1, 0, 0, 0, homegoals, awaygoals)
            r3 == bump(r2, team_2, 0, 0, 0, awaygoals, homegoals)
        IN  [raised |-> "none", rows |-> r3]

\* game sorting the table by sortf after the update
game_then_sort(rs, hometeam, awayteam, homegoals, awaygoals) ==
    LET i1 == find(rs, hometeam)
        i2 == find(rs, awayteam)
    IN  IF i1 = 0 \/ i2 = 0
        THEN [raised |-> "LookupError", rows |-> rs]
        ELSE
        LET team_1 == rs[i1].obj
            team_2 == rs[i2].obj
            r1 == IF homegoals = awaygoals
                  THEN bump(bump(rs, team_1, 0, 1, 0, 0, 0),
                            team_2, 0, 1, 0, 0, 0)
                  ELSE IF homegoals > awaygoals
                  THEN bump(bump(rs, team_1, 1, 0, 0, 0, 0),
                            team_2, 0, 0, 1, 0, 0)
                  ELSE bump(bump(rs, team_1, 0, 0, 1, 0, 0),
                            team_2, 1, 0, 0, 0, 0)
            r2 == bump(r1, team_1, 0, 0, 0, homegoals, awaygoals)
            r3 == bump(r2, team_2, 0, 0, 0, awaygoals, homegoals)
        IN  [raised |-> "none", rows |-> sort(r3, sortf_keys(r3))]

\* game(table, hometeam, awayteam, homegoals, awaygoals)
game(rs, hometeam, awayteam, homegoals, awaygoals) ==
    LET i1 == find(rs, hometeam)
        i2 == find(rs, awayteam)
    IN  IF i1 = 0 \/ i2 = 0
        THEN [raised |-> "LookupError", rows |-> rs]
        ELSE
        LET team_1 == rs[i1].obj
            team_2 == rs[i2].obj
            r1 == IF homegoals = awaygoals
                  THEN bump(bump(rs, team_1, 0, 1, 0, 0, 0),
                            team_2, 0, 1, 0, 0, 0)
                  ELSE IF homegoals > awaygoals
                  THEN bump(bump(rs, team_1, 1, 0, 0, 0, 0),
                            team_2, 0, 0, 1, 0, 0)
                  ELSE bump(bump(rs, team_1, 0, 0, 1, 0, 0),
                            team_2, 1, 0, 0, 0, 0)
            r2 == bump(r1, team_1, 0, 0, 0, homegoals, awaygoals)
            r3 == bump(r2, team_2, 0, 0, 0, awaygoals, homegoals)
        IN  [raised |-> "none", rows |-> r3]

---------------------------------------------------------------------------
(* The state machine: one action per call on the table *)

\* the counters of t are within the bounds of the model
InBounds(t) ==
    /\ games(t) <= MaxGames
    /\ t.scored <= MaxStat
    /\ t.conceded <= MaxStat

AllInBounds(rs) == Len(rs) <= MaxRows /\ \A i \in 1..Len(rs) : InBounds(rs[i])

\* the argument tuples of Team(name, ...) that Spec passes
FullArgs == [1..5 -> StatArgs]
WrongArgs == {[i \in 1..k |-> 1] : k \in {1, 2, 3, 4, 6}}
TeamArgs == {<<>>} \cup FullArgs \cup WrongArgs

\* the instances a caller passes to add(item) and table[i] = item: a new
\* Team(name), a new Team(name, 1, 0, 0, 1, 0) or an instance of the table
Items(rs) ==
    {Team(n, <<>>).team : n \in Names}
    \cup {Team(n, <<1, 0, 0, 1, 0>>).team : n \in Names}
    \cup {rs[i] : i \in 1..Len(rs)}

\* the argument tuples SpecSort passes: losses do not enter the ranking key
RankedArgs ==
    {<<w, d, 0, s, c>> : w \in 0..MaxWins, d \in 0..MaxDraws,
                         s \in 0..MaxScored, c \in 0..MaxConceded}

\* Table.__init__: default_fname
default_fname == "./table.csv"

\* the paths a caller reads and saves: the default one and one more
Paths == {default_fname, "./other.csv"}

\* the game panel with its four entries empty
NoEntries ==
    [hometeam_text |-> <<>>, awayteam_text |-> <<>>,
     homegoal_text |-> <<>>, awaygoal_text |-> <<>>]

\* a path that holds no file
NoFile == [exists |-> FALSE, text |-> <<>>, saved |-> <<>>]

\* a directory without files
NoFiles == [p \in Paths |-> NoFile]

\* Table(): an empty table named ./table.csv, nothing on disk
Init ==
    /\ rows = <<>>
    /\ op = "init"
    /\ raised = "none"
    /\ ret = <<>>
    /\ fname = default_fname
    /\ disk = NoFiles
    /\ query = <<>>
    /\ word_list = <<>>
    /\ values = <<>>
    /\ game_panel = NoEntries

\* the call returns or raises: res is its outcome and the rows it leaves
Outcome(res) ==
    /\ AllInBounds(res.rows)
    /\ rows' = Canon(res.rows)
    /\ raised' = res.raised
    /\ ret' = <<>>
    /\ UNCHANGED <<fname, disk, query, word_list, values, game_panel>>

\* table.add(name, *args)
Add(name, args) ==
    /\ op' = "add"
    /\ Outcome(add(rows, name, args))

\* table.add(item)
AddInstance(item) ==
    /\ op' = "add"
    /\ Outcome(add_instance(rows, item))

\* table[index] = item
SetItem(index, item) ==
    /\ op' = "setitem"
    /\ Outcome(setitem(rows, index, item))

\* game(table, hometeam, awayteam, homegoals, awaygoals)
Game(hometeam, awayteam, homegoals, awaygoals) ==
    /\ op' = "game"
    /\ Outcome(game(rows, hometeam, awayteam, homegoals, awaygoals))

\* table.sort(sortf)
Sort ==
    /\ op' = "sort"
    /\ Outcome([raised |-> "none", rows |-> sort(rows, sortf_keys(rows))])

\* table.find(name)
Find(name) ==
    LET i == find(rows, name)
    IN  /\ rows' = rows
        /\ op' = "find"
        /\ raised' = IF i = 0 THEN "LookupError" ELSE "none"
        /\ ret' = IF i = 0 THEN <<>> ELSE <<rows[i]>>
        /\ UNCHANGED <<fname, disk, query, word_list, values, game_panel>>

Next ==
    \/ \E name \in Names, args \in TeamArgs : Add(name, args)
    \/ \E item \in Items(rows) : AddInstance(item)
    \/ \E index \in (-MaxRows - 1)..(MaxRows + 1), item \in Items(rows) :
           SetItem(index, item)
    \/ \E h \in Names, a \in Names, hg \in Goals, ag \in Goals :
           Game(h, a, hg, ag)
    \/ Sort
    \/ \E name \in Names : Find(name)

Spec == Init /\ [][Next]_vars

---------------------------------------------------------------------------
(* Claims about the table and game, checked under Spec *)

\* some row of rs has the name n
Present(rs, n) == \E i \in 1..Len(rs) : rs[i].name = n

\* the first row of rs with the name n: the record a lookup of n refers to
Named(rs, n) == CHOOSE i \in 1..Len(rs) :
    rs[i].name = n /\ \A k \in 1..(i - 1) : rs[k].name # n

\* C4: in every reachable state every record has points = 3 * wins + draws,
\* games = wins + draws + losses and goal_diff = scored - conceded.
C4_DerivedFields ==
    \A i \in 1..Len(rows) :
        /\ points(rows[i]) = 3 * rows[i].wins + rows[i].draws
        /\ games(rows[i]) = rows[i].wins + rows[i].draws + rows[i].losses
        /\ goal_diff(rows[i]) = rows[i].scored - rows[i].conceded

\* after a game, a winner with a goal scored beside a loser
C4_Witness ==
    /\ op = "game" /\ raised = "none"
    /\ \E i \in 1..Len(rows) : rows[i].wins = 1 /\ rows[i].scored = 1
    /\ \E i \in 1..Len(rows) : rows[i].losses = 1 /\ rows[i].conceded = 1

\* what C5 states of the step game(h, a, hg, ag)
C5_Outcome(h, a, hg, ag) ==
    LET i == Named(rows, h)
        j == Named(rows, a)
        dw(k) == rows'[k].wins - rows[k].wins
        dd(k) == rows'[k].draws - rows[k].draws
        dl(k) == rows'[k].losses - rows[k].losses
    IN  /\ raised' = "none"
        /\ Len(rows') = Len(rows)
        /\ hg = ag => /\ <<dw(i), dd(i), dl(i)>> = <<0, 1, 0>>
                       /\ <<dw(j), dd(j), dl(j)>> = <<0, 1, 0>>
        /\ hg > ag => /\ <<dw(i), dd(i), dl(i)>> = <<1, 0, 0>>
                       /\ <<dw(j), dd(j), dl(j)>> = <<0, 0, 1>>
        /\ hg < ag => /\ <<dw(i), dd(i), dl(i)>> = <<0, 0, 1>>
                       /\ <<dw(j), dd(j), dl(j)>> = <<1, 0, 0>>

\* C5: a game between two different names of the table adds 1 to exactly
\* one of wins, draws, losses of each of the two records: both draws when
\* hg = ag, home wins and away losses when hg > ag, home losses and away wins
\* when hg < ag; the other two counters of each record keep their value.
C5_GameOutcome ==
    [][op' = "game" =>
        \A h \in Names, a \in Names, hg \in Goals, ag \in Goals :
            (/\ h # a
             /\ Present(rows, h)
             /\ Present(rows, a)
             /\ Game(h, a, hg, ag)) => C5_Outcome(h, a, hg, ag)]_vars

\* after a game, the first row has a draw and the second row has a draw
C5_Witness ==
    /\ op = "game" /\ raised = "none"
    /\ Len(rows) = 2
    /\ rows[1].name # rows[2].name
    /\ rows[1].draws = 1 /\ rows[2].draws = 1
    /\ rows[1].scored = 1 /\ rows[2].scored = 1

\* what C6 states of the step game(h, a, hg, ag)
C6_Goals(h, a, hg, ag) ==
    LET i == Named(rows, h)
        j == Named(rows, a)
    IN  /\ raised' = "none"
        /\ rows'[i].scored = rows[i].scored + hg
        /\ rows'[j].conceded = rows[j].conceded + hg
        /\ rows'[j].scored = rows[j].scored + ag
        /\ rows'[i].conceded = rows[i].conceded + ag

\* C6: a game between two different names of the table adds hg to the
\* scored goals of home and the conceded goals of away, and ag to the scored
\* goals of away and the conceded goals of home.
C6_GameGoals ==
    [][op' = "game" =>
        \A h \in Names, a \in Names, hg \in Goals, ag \in Goals :
            (/\ h # a
             /\ Present(rows, h)
             /\ Present(rows, a)
             /\ Game(h, a, hg, ag)) => C6_Goals(h, a, hg, ag)]_vars

\* after a game, one row scored 1 and conceded 0, the other the reverse
C6_Witness ==
    /\ op = "game" /\ raised = "none"
    /\ Len(rows) = 2
    /\ rows[1].name # rows[2].name
    /\ \E i \in 1..2 : rows[i].scored = 1 /\ rows[i].conceded = 0
                         /\ rows[i].wins = 1
    /\ \E i \in 1..2 : rows[i].scored = 0 /\ rows[i].conceded = 1
                         /\ rows[i].losses = 1

\* C7: when the home name or the away name is not in the table, game fails
\* with LookupError and no record of the table changes.
C7_GameNotFound ==
    [][op' = "game" =>
        \A h \in Names, a \in Names, hg \in Goals, ag \in Goals :
            (/\ ~Present(rows, h) \/ ~Present(rows, a)
             /\ Game(h, a, hg, ag))
            => (raised' = "LookupError" /\ rows' = rows)]_vars

\* a game has failed on a table that holds a record
C7_Witness ==
    /\ op = "game" /\ raised = "LookupError"
    /\ Len(rows) >= 1
    /\ \E n \in Names : ~Present(rows, n)

\* C8: in every reachable state no two records of the table have the same
\* name.
C8_UniqueNames ==
    \A i \in 1..Len(rows) : \A j \in 1..Len(rows) :
        rows[i].name = rows[j].name => i = j

\* C9: Table.add with a name that is already in the table fails, and the
\* table is as long after the call as before it.
C9_AddDuplicateFails ==
    [][op' = "add" =>
        \A name \in Names, args \in TeamArgs :
            (Present(rows, name) /\ Add(name, args))
            => (raised' # "none" /\ Len(rows') = Len(rows))]_vars

\* C10: Table.find(name) returns a record of the table whose name is name
\* when there is one, and raises LookupError exactly when there is none.
C10_Find ==
    [][op' = "find" =>
        \A name \in Names :
            Find(name) =>
                IF Present(rows, name)
                THEN /\ raised' = "none"
                     /\ Len(ret') = 1
                     /\ ret'[1].name = name
                     /\ \E i \in 1..Len(rows) : rows[i] = ret'[1]
                ELSE raised' = "LookupError" /\ ret' = <<>>]_vars

\* find has returned the second row of a table whose first row has the
\* same name in another case
C10_Witness ==
    /\ op = "find" /\ raised = "none"
    /\ Len(rows) = 2
    /\ ret = <<rows[2]>>
    /\ rows[1].name # rows[2].name
    /\ Lower(rows[1].name) = Lower(rows[2].name)

---------------------------------------------------------------------------
(* The ranking: tables built by add(name, w, d, l, s, c), then sorted *)

\* table.add(name, w, d, 0, s, c)
AddRanked(name, args) ==
    /\ Len(rows) < MaxSortRows
    /\ rows' = Canon(add(rows, name, args).rows)
    /\ op' = "add"
    /\ raised' = "none"
    /\ ret' = <<>>
    /\ UNCHANGED <<fname, disk, query, word_list, values, game_panel>>

\* table.sort(sortf)
SortRanked ==
    /\ rows' = Canon(sort(rows, sortf_keys(rows)))
    /\ op' = "sort"
    /\ raised' = "none"
    /\ ret' = <<>>
    /\ UNCHANGED <<fname, disk, query, word_list, values, game_panel>>

NextSort ==
    \/ \E name \in Names, args \in RankedArgs : AddRanked(name, args)
    \/ SortRanked

SpecSort == Init /\ [][NextSort]_vars

---------------------------------------------------------------------------
(* Claims about the ranking, checked under SpecSort *)

\* a <= b on str
StrLeq(a, b) == ~StrLess(b, a)

SameRank(a, b) ==
    /\ points(a) = points(b)
    /\ goal_diff(a) = goal_diff(b)
    /\ a.scored = b.scored

\* the ranking rule between a record a placed before a record b
RankedBefore(a, b) ==
    \/ points(a) > points(b)
    \/ points(a) = points(b) /\ goal_diff(a) > goal_diff(b)
    \/ /\ points(a) = points(b)
       /\ goal_diff(a) = goal_diff(b)
       /\ a.scored > b.scored
    \/ SameRank(a, b) /\ StrLeq(a.name, b.name)

\* C1: after Table.sort(sortf), every record a placed before a record b has
\* more points; or as many points and a greater goal difference; or as many
\* of both and more scored goals; or the same three and name(a) <= name(b).
C1_SortFollowsRanking ==
    op = "sort" =>
        \A i \in 1..Len(rows) : \A j \in (i + 1)..Len(rows) :
            RankedBefore(rows[i], rows[j])

\* a sorted table of three rows in which the goal difference decides against
\* the scored goals, and the name decides between two other rows
C1_Witness ==
    /\ op = "sort"
    /\ Len(rows) = 3
    /\ \E i \in 1..3 : \E j \in (i + 1)..3 :
           /\ points(rows[i]) = points(rows[j])
           /\ goal_diff(rows[i]) > goal_diff(rows[j])
           /\ rows[i].scored < rows[j].scored
    /\ \E i \in 1..3 : \E j \in (i + 1)..3 :
           SameRank(rows[i], rows[j]) /\ rows[i].name # rows[j].name

\* C2: after Table.sort(sortf), a record with more points precedes every
\* record with fewer points, whatever the other fields are.
C2_PointsFirst ==
    op = "sort" =>
        \A i \in 1..Len(rows) : \A j \in 1..Len(rows) :
            points(rows[i]) > points(rows[j]) => i < j

\* a sorted table where the record with more points loses on goal
\* difference, on scored goals and on name
C2_Witness ==
    /\ op = "sort"
    /\ \E i \in 1..Len(rows) : \E j \in (i + 1)..Len(rows) :
           /\ points(rows[i]) > points(rows[j])
           /\ goal_diff(rows[i]) < goal_diff(rows[j])
           /\ rows[i].scored < rows[j].scored
           /\ StrLess(rows[j].name, rows[i].name)

\* C3: after Table.sort(sortf), two records with the same points, goal
\* difference and scored goals appear in ascending name order.
C3_NameBreaksTies ==
    op = "sort" =>
        \A i \in 1..Len(rows) : \A j \in (i + 1)..Len(rows) :
            SameRank(rows[i], rows[j]) => StrLeq(rows[i].name, rows[j].name)

\* a sorted table of three records of the same rank and three names
C3_Witness ==
    /\ op = "sort"
    /\ Len(rows) = 3
    /\ SameRank(rows[1], rows[2]) /\ SameRank(rows[2], rows[3])
    /\ StrLess(rows[1].name, rows[2].name)
    /\ StrLess(rows[2].name, rows[3].name)

---------------------------------------------------------------------------
(* Text: str, int, split and join on sequences of code points *)

RECURSIVE digits(_)
\* the decimal digits of n >= 0, most significant first
digits(n) ==
    IF n < 10 THEN <<48 + n>>
    ELSE digits(n \div 10) \o <<48 + (n % 10)>>

\* str(n) keeping the last digit only
str_last_digit(n) == <<48 + (n % 10)>>

\* str(n) of an int
str(n) == IF n < 0 THEN <<45>> \o digits(-n) ELSE digits(n)

\* str.isspace() of one character: tab, newline, VT, FF, CR, space
isspace(c) == c \in {9, 10, 11, 12, 13, 32}

\* '0' <= c <= '9'
isdigit(c) == c >= 48 /\ c <= 57

RECURSIVE lstrip(_)
lstrip(s) == IF s # <<>> /\ isspace(Head(s)) THEN lstrip(Tail(s)) ELSE s

RECURSIVE rstrip(_)
rstrip(s) ==
    IF s # <<>> /\ isspace(s[Len(s)])
    THEN rstrip(SubSeq(s, 1, Len(s) - 1))
    ELSE s

RECURSIVE digits_value(_)
\* the number a string of decimal digits denotes
digits_value(d) ==
    IF d = <<>> THEN 0
    ELSE 10 * digits_value(SubSeq(d, 1, Len(d) - 1)) + (d[Len(d)] - 48)

\* int(s) of a str: surrounding whitespace is dropped, one sign is allowed,
\* the rest must be decimal digits, else ValueError
int(s) ==
    LET t == rstrip(lstrip(s))
        signed == t # <<>> /\ Head(t) \in {43, 45}
        d == IF signed THEN Tail(t) ELSE t
    IN  IF d = <<>> \/ \E i \in 1..Len(d) : ~isdigit(d[i])
        THEN [raised |-> "ValueError", value |-> 0]
        ELSE [raised |-> "none",
              value |-> IF signed /\ Head(t) = 45
                        THEN -digits_value(d) ELSE digits_value(d)]

RECURSIVE split(_, _)
\* s.split(sep) with a one-character sep: the fields between the separators
split(s, sep) ==
    IF \A i \in 1..Len(s) : s[i] # sep[1] THEN <<s>>
    ELSE LET k == CHOOSE i \in 1..Len(s) :
                    /\ s[i] = sep[1]
                    /\ \A j \in 1..(i - 1) : s[j] # sep[1]
         IN  <<SubSeq(s, 1, k - 1)>> \o split(SubSeq(s, k + 1, Len(s)), sep)

RECURSIVE join_hyphen_last(_, _)
\* sep.join(attrs) with a hyphen between the last two attributes
join_hyphen_last(sep, attrs) ==
    IF attrs = <<>> THEN <<>>
    ELSE IF Len(attrs) = 1 THEN attrs[1]
    ELSE IF Len(attrs) = 2 THEN attrs[1] \o <<45>> \o attrs[2]
    ELSE attrs[1] \o sep \o join_hyphen_last(sep, Tail(attrs))

RECURSIVE join(_, _)
\* sep.join(attrs)
join(sep, attrs) ==
    IF attrs = <<>> THEN <<>>
    ELSE IF Len(attrs) = 1 THEN attrs[1]
    ELSE attrs[1] \o sep \o join(sep, Tail(attrs))

RECURSIVE readlines(_)
\* for line in table_file: each line with the newline that ends it
readlines(text) ==
    IF text = <<>> THEN <<>>
    ELSE IF \A i \in 1..Len(text) : text[i] # 10 THEN <<text>>
    ELSE LET k == CHOOSE i \in 1..Len(text) :
                    /\ text[i] = 10
                    /\ \A j \in 1..(i - 1) : text[j] # 10
         IN  <<SubSeq(text, 1, k)>> \o readlines(SubSeq(text, k + 1, Len(text)))

---------------------------------------------------------------------------
(* Files: Table.save and Table.read *)

\* Team.__init__(name, *args) with every stat a str, as a line of a file or
\* an entry of the team panel gives them: int(...) raises ValueError
TeamOfStr(name, args) ==
    IF Len(args) = 5
    THEN LET v == [i \in 1..5 |-> int(args[i])]
         IN  IF \E i \in 1..5 : v[i].raised # "none"
             THEN [raised |-> "ValueError", team |-> Team(name, <<>>).team]
             ELSE Team(name, [i \in 1..5 |-> v[i].value])
    ELSE Team(name, args)

\* Table.add(name, *args) with every stat a str
add_str(rs, name, args) ==
    LET new_item == TeamOfStr(name, args)
    IN  IF new_item.raised # "none"
        THEN [raised |-> new_item.raised, rows |-> rs]
        ELSE [raised |-> "none", rows |-> Append(rs, new_item.team)]

\* [str(getattr(item, k)) for k in keys]: name, wins, draws, losses,
\* scored, conceded in the order __init__ assigns them; str(name) is name
attrs(item) == <<item.name, str(item.wins), str(item.draws),
                 str(item.losses), str(item.scored), str(item.conceded)>>

RECURSIVE written(_)
\* the text Table.save writes for the rows rs
written(rs) ==
    IF rs = <<>> THEN <<>>
    ELSE join(<<44>>, attrs(Head(rs))) \o <<10>> \o written(Tail(rs))

\* Table.save writing to the table's own file whatever fname is
save_to_own_file(rs, d, own, f) ==
    [d EXCEPT ![own] = [exists |-> TRUE, text |-> written(rs),
                        saved |-> <<Values(rs)>>]]

\* Table.save(fname): the files after the call; f = "None" is save().
\* saved remembers the records the text was written from.
save(rs, d, own, f) ==
    LET path == IF f = "None" THEN own ELSE f
    IN  [d EXCEPT ![path] = [exists |-> TRUE, text |-> written(rs),
                             saved |-> <<Values(rs)>>]]

RECURSIVE read_lines(_, _)
\* the loop of Table.read over the lines ls, acc being self.rows so far
read_lines(acc, ls) ==
    IF ls = <<>> THEN [raised |-> "none", rows |-> acc]
    ELSE LET data == split(Head(ls), <<44>>)
             new_item == TeamOfStr(Head(data), Tail(data))
         IN  IF new_item.raised # "none"
             THEN [raised |-> new_item.raised, rows |-> acc]
             ELSE read_lines(
                    Append(acc, [new_item.team EXCEPT !.obj = Len(acc) + 1]),
                    Tail(ls))

\* Table.read(fname): self.rows = [] comes before open(fname)
read(d, path) ==
    IF ~d[path].exists
    THEN [raised |-> "FileNotFoundError", rows |-> <<>>]
    ELSE read_lines(<<>>, readlines(d[path].text))

\* longest table SpecFile builds by add
MaxFileRows == 2
\* longest table SpecFile reads from a file
MaxReadRows == 2

\* "A", "A,B", "A\nB"
FileNames == {<<65>>, <<65, 44, 66>>, <<65, 10, 66>>}

\* the entries of a team panel: none, or "1", "0", "2", "10", "0"
FileArgs == {<<>>, <<<<49>>, <<48>>, <<50>>, <<49, 48>>, <<48>>>>}

\* the file format of the module docstring, Lagnamn,v,o,f,gm-im:
\* "A,1,0,2,10-0\n"
HyphenFile ==
    join_hyphen_last(<<44>>, attrs(TeamOfStr(<<65>>,
        <<<<49>>, <<48>>, <<50>>, <<49, 48>>, <<48>>>>).team)) \o <<10>>

\* "A,0,0,0,0,0\nA,x,0,0,0,0\n": a stat of the second row is not an integer
NonIntegerFile ==
    written(<<Team(<<65>>, <<>>).team>>)
    \o join(<<44>>, <<<<65>>, <<120>>, <<48>>, <<48>>, <<48>>, <<48>>>>)
    \o <<10>>

\* "A,0,0,0,0,0\nA,0,0\n": the second row has three fields
ShortRowFile ==
    written(<<Team(<<65>>, <<>>).team>>)
    \o join(<<44>>, <<<<65>>, <<48>>, <<48>>>>) \o <<10>>

\* files that some other program wrote
ForeignTexts == {HyphenFile, NonIntegerFile, ShortRowFile}

\* Table() or Table("./other.csv") on an empty file
InitFile ==
    /\ rows = <<>>
    /\ op = "init"
    /\ raised = "none"
    /\ ret = <<>>
    /\ fname \in Paths
    /\ disk = IF fname = default_fname THEN NoFiles
              ELSE [NoFiles EXCEPT ![fname] =
                        [exists |-> TRUE, text |-> <<>>, saved |-> <<>>]]
    /\ query = <<>>
    /\ word_list = <<>>
    /\ values = <<>>
    /\ game_panel = NoEntries

\* table.add(name, *entries)
FileAdd(name, args) ==
    /\ Len(rows) < MaxFileRows
    /\ rows' = Canon(add_str(rows, name, args).rows)
    /\ raised' = add_str(rows, name, args).raised
    /\ op' = "add"
    /\ ret' = <<>>
    /\ UNCHANGED <<fname, disk, query, word_list, values, game_panel>>

\* table.save(f), table.save() when f = "None"
Save(f) ==
    /\ disk' = save(rows, disk, fname, f)
    /\ op' = "save"
    /\ raised' = "none"
    /\ ret' = <<>>
    /\ UNCHANGED <<rows, fname, query, word_list, values, game_panel>>

\* table.read(path)
Read(path) ==
    /\ Len(read(disk, path).rows) <= MaxReadRows
    /\ rows' = read(disk, path).rows
    /\ raised' = read(disk, path).raised
    /\ op' = "read"
    /\ ret' = <<>>
    /\ UNCHANGED <<fname, disk, query, word_list, values, game_panel>>

\* another program writes text to path
WriteFile(path, text) ==
    /\ disk' = [disk EXCEPT ![path] =
                    [exists |-> TRUE, text |-> text, saved |-> <<>>]]
    /\ op' = "write"
    /\ raised' = "none"
    /\ ret' = <<>>
    /\ UNCHANGED <<rows, fname, query, word_list, values, game_panel>>

NextFile ==
    \/ \E name \in FileNames, args \in FileArgs : FileAdd(name, args)
    \/ \E f \in Paths \cup {"None"} : Save(f)
    \/ \E path \in Paths : Read(path)
    \/ \E path \in Paths, text \in ForeignTexts : WriteFile(path, text)

SpecFile == InitFile /\ [][NextFile]_vars

---------------------------------------------------------------------------
(* Claims checked under SpecFile *)

\* no name of the records vals holds the character c
NoneHolds(vals, c) ==
    \A i \in 1..Len(vals) : \A k \in 1..Len(vals[i][1]) : vals[i][1][k] # c

\* C11 as stated: for any table whose names contain no comma, save(path)
\* followed by read(path) into a table with any contents yields exactly the
\* saved records, in the same order, and nothing of the previous contents.
C11_RoundTripNoComma ==
    [][op' = "read" =>
        \A path \in Paths :
            (/\ Read(path)
             /\ disk[path].saved # <<>>
             /\ NoneHolds(disk[path].saved[1], 44))
            => /\ raised' = "none"
               /\ Values(rows') = disk[path].saved[1]]_vars

\* C11: for any table whose names contain neither a comma nor a newline,
\* save(path) followed by read(path) into a table with any contents yields
\* exactly the saved records (same names, wins, draws, losses, scored and
\* conceded) in the same order, and nothing of the previous contents.
C11_RoundTrip ==
    [][op' = "read" =>
        \A path \in Paths :
            (/\ Read(path)
             /\ disk[path].saved # <<>>
             /\ NoneHolds(disk[path].saved[1], 44)
             /\ NoneHolds(disk[path].saved[1], 10))
            => /\ raised' = "none"
               /\ Values(rows') = disk[path].saved[1]]_vars

\* a read has brought back two saved records, the first with scored = 10
C11_Witness ==
    /\ op = "read"
    /\ raised = "none"
    /\ Len(rows) = 2
    /\ rows[1].scored = 10
    /\ rows[2].scored = 0
    /\ \E path \in Paths : disk[path].saved = <<Values(rows)>>

\* the line <name>,<wins>,<draws>,<losses>,<scored>-<conceded> of the
\* record v = <<name, wins, draws, losses, scored, conceded>>
HyphenLine(v) ==
    v[1] \o <<44>> \o str(v[2]) \o <<44>> \o str(v[3]) \o <<44>>
         \o str(v[4]) \o <<44>> \o str(v[5]) \o <<45>> \o str(v[6]) \o <<10>>

\* the files that save has just written, with the records it wrote
JustSaved(path) == disk'[path].saved # <<>> /\ disk'[path] # disk[path]

CommaLine(t) ==
    t.name \o <<44>> \o str(t.wins) \o <<44>> \o str(t.draws) \o <<44>>
           \o str(t.losses) \o <<44>> \o str(t.scored) \o <<44>>
           \o str(t.conceded) \o <<10>>

RECURSIVE CommaLines(_, _)
\* the lines of the records rs[i], rs[i + 1], ... one after the other
CommaLines(rs, i) ==
    IF i > Len(rs) THEN <<>> ELSE CommaLine(rs[i]) \o CommaLines(rs, i + 1)

C14_FailedReadKeepsRows ==
    [][op' = "read" =>
        \A path \in Paths :
            (Read(path) /\ disk[path].text \in {NonIntegerFile, ShortRowFile})
            => /\ raised' \in {"TypeError", "ValueError"}
               /\ rows' = rows]_vars

---------------------------------------------------------------------------
(* The team panel: records made from entry texts, and Controller.edit_team *)

\* longest table SpecPanel builds
MaxPanelRows == 2

\* the text of one stat entry: "0", "1", "-1", "x"
StatTexts == {<<48>>, <<49>>, <<45, 49>>, <<120>>}

\* five entries "0"
ZeroTexts == [i \in 1..5 |-> <<48>>]

\* the stats typed for one team: nothing, or five entries of which at most
\* one is not "0"
PanelArgs ==
    {<<>>} \cup {[ZeroTexts EXCEPT ![k] = t] : k \in 1..5, t \in StatTexts}

\* Controller.edit_team(name, *stats): self.model.index(name) is evaluated
\* first, and Table has the methods read, save, find, _index, add and sort
\* but no attribute index, so the call raises AttributeError before the
\* table is touched
edit_team(rs, name, stats) == [raised |-> "AttributeError", rows |-> rs]

\* table.add(name, *entries)
PanelAdd(name, args) ==
    /\ Len(rows) < MaxPanelRows
    /\ rows' = Canon(add_str(rows, name, args).rows)
    /\ raised' = add_str(rows, name, args).raised
    /\ op' = "add"
    /\ ret' = <<>>
    /\ UNCHANGED <<fname, disk, query, word_list, values, game_panel>>

\* controller.edit_team(name, *entries)
EditTeam(name, args) ==
    /\ rows' = Canon(edit_team(rows, name, args).rows)
    /\ raised' = edit_team(rows, name, args).raised
    /\ op' = "edit_team"
    /\ ret' = <<>>
    /\ UNCHANGED <<fname, disk, query, word_list, values, game_panel>>

NextPanel ==
    \/ \E name \in Names, args \in PanelArgs : PanelAdd(name, args)
    \/ \E name \in Names, args \in PanelArgs : EditTeam(name, args)

SpecPanel == Init /\ [][NextPanel]_vars

\* C15 as stated: creating a record with a stat that cannot be coerced to
\* an integer or that is negative fails with an error, so no record with a
\* negative wins, draws, losses, scored or conceded enters the table.
C15_InvalidStatRejected ==
    [][op' = "add" =>
        \A name \in Names, args \in PanelArgs :
            (/\ PanelAdd(name, args)
             /\ Len(args) = 5
             /\ \E k \in 1..5 : \/ int(args[k]).raised # "none"
                                \/ int(args[k]).value < 0)
            => raised' # "none" /\ rows' = rows]_vars

\* C17 as stated: edit_team(name, stats) of an existing name overwrites that
\* record in place (same position, same name, the new stats, the length and
\* every other record unchanged); for an absent name it fails with
\* not-found and the table is unchanged.
C17_EditInPlace ==
    [][op' = "edit_team" =>
        \A name \in Names, args \in PanelArgs :
            (/\ EditTeam(name, args)
             /\ Len(args) = 5
             /\ \A k \in 1..5 : int(args[k]).raised = "none")
            => LET i == find(rows, name)
               IN  IF i = 0
                   THEN /\ raised' = "LookupError" \/ ret' = <<FALSE>>
                        /\ rows' = rows
                   ELSE /\ raised' = "none"
                        /\ Len(rows') = Len(rows)
                        /\ Values(rows')[i] =
                             <<name, int(args[1]).value, int(args[2]).value,
                               int(args[3]).value, int(args[4]).value,
                               int(args[5]).value>>
                        /\ \A j \in 1..Len(rows) :
                             j # i => rows'[j] = rows[j]]_vars

---------------------------------------------------------------------------
(* autocomplete *)

\* longest candidate, longest candidate list and longest query of SpecAuto
MaxWordLen == 3
MaxWords == 2
MaxQueryLen == 1

\* the characters of the candidates and of the query: ' ', 'A', 'a'
Alphabet == {32, 65, 97}

\* the non-empty texts of at most MaxWordLen characters
Words == UNION {[1..n -> Alphabet] : n \in 1..MaxWordLen}

\* the lists of at most MaxWords candidates, the same text twice included
WordLists == UNION {[1..n -> Words] : n \in 0..MaxWords}

\* the texts of at most MaxQueryLen characters
Queries == UNION {[1..n -> Alphabet] : n \in 0..MaxQueryLen}

RECURSIVE insort_str(_, _)
\* put the str x after every str of the sorted s that is not greater
insort_str(s, x) ==
    IF s = <<>> THEN <<x>>
    ELSE IF StrLess(x, Head(s)) THEN <<x>> \o s
    ELSE <<Head(s)>> \o insort_str(Tail(s), x)

RECURSIVE sorted(_)
\* sorted(word_list): ascending by code point
sorted(ws) ==
    IF ws = <<>> THEN <<>>
    ELSE insort_str(sorted(SubSeq(ws, 1, Len(ws) - 1)), ws[Len(ws)])

\* word.startswith(prefix)
startswith(word, prefix) ==
    Len(prefix) <= Len(word) /\ SubSeq(word, 1, Len(prefix)) = prefix

\* filtered_list without the calls of lower()
filtered_list_cased(q, ws) ==
    LET Matches(word) == startswith(word, q)
    IN  SelectSeq(sorted(ws), Matches)

\* filtered_list taken from word_list as given, without sorted()
filtered_list_unsorted(q, ws) ==
    LET Matches(word) == startswith(Lower(word), Lower(q))
    IN  SelectSeq(ws, Matches)

\* [word for word in sorted(word_list)
\*  if word.lower().startswith(query.lower())]
filtered_list(q, ws) ==
    LET Matches(word) == startswith(Lower(word), Lower(q))
    IN  SelectSeq(sorted(ws), Matches)

RECURSIVE letter_in_all(_, _, _)
\* letter_in_all(index, letter, words) with a 0-based index: "True",
\* "False", or "IndexError" when word[index] is past the end of a word
letter_in_all(index, letter, words) ==
    IF words = <<>> THEN "True"
    ELSE IF index >= Len(Head(words)) THEN "IndexError"
    ELSE IF Lower(<<Head(words)[index + 1]>>) # Lower(<<letter>>) THEN "False"
    ELSE letter_in_all(index, letter, Tail(words))

RECURSIVE common(_, _, _)
\* the for loop of autocomplete from the 0-based index on
common(first_word, index, words) ==
    IF index >= Len(first_word)
    THEN [raised |-> "none", value |-> first_word]
    ELSE LET r == letter_in_all(index, first_word[index + 1], words)
         IN  IF r = "IndexError"
             THEN [raised |-> "IndexError", value |-> <<>>]
             ELSE IF r = "False"
             THEN [raised |-> "none", value |-> SubSeq(first_word, 1, index)]
             ELSE common(first_word, index + 1, words)

\* autocomplete returning the query when no candidate matches
autocomplete_echo(q, ws) ==
    LET fl == filtered_list(q, ws)
    IN  IF fl = <<>> THEN [raised |-> "none", value |-> q]
        ELSE IF Len(fl) = 1 THEN [raised |-> "none", value |-> fl[1]]
        ELSE common(Head(fl), Len(q), Tail(fl))

\* autocomplete(query, word_list): the text returned or the exception
autocomplete(q, ws) ==
    LET fl == filtered_list(q, ws)
    IN  IF fl = <<>> THEN [raised |-> "none", value |-> <<>>]
        ELSE IF Len(fl) = 1 THEN [raised |-> "none", value |-> fl[1]]
        ELSE common(Head(fl), Len(q), Tail(fl))

\* a query typed over a list of candidates, nothing completed yet
InitAuto ==
    /\ rows = <<>>
    /\ op = "init"
    /\ raised = "none"
    /\ ret = <<>>
    /\ fname = default_fname
    /\ disk = NoFiles
    /\ query \in Queries
    /\ word_list \in WordLists
    /\ values = <<>>
    /\ game_panel = NoEntries

\* substring = autocomplete(query, name_list)
Autocomplete ==
    /\ op' = "autocomplete"
    /\ raised' = autocomplete(query, word_list).raised
    /\ ret' = IF autocomplete(query, word_list).raised = "none"
              THEN <<autocomplete(query, word_list).value>> ELSE <<>>
    /\ UNCHANGED <<rows, fname, disk, query, word_list, values, game_panel>>

NextAuto == Autocomplete

SpecAuto == InitAuto /\ [][NextAuto]_vars

\* the positions of the candidates that start with the query, case aside
Matching == {i \in 1..Len(word_list) :
                startswith(Lower(word_list[i]), Lower(query))}

\* every matching candidate starts with the text p, case aside
SharedByAll(p) ==
    \A i \in Matching : startswith(Lower(word_list[i]), Lower(p))

\* C18: when two or more candidates start with the query case-insensitively,
\* autocomplete returns the longest prefix that every matching candidate
\* shares case-insensitively; if one matching candidate is a prefix of all
\* the others, that whole candidate is returned.
C18_LongestCommonPrefix ==
    (op = "autocomplete" /\ Cardinality(Matching) >= 2) =>
        /\ raised = "none"
        /\ SharedByAll(ret[1])
        /\ \A i \in Matching :
             \A n \in (Len(ret[1]) + 1)..Len(word_list[i]) :
                ~SharedByAll(SubSeq(word_list[i], 1, n))
        /\ (\E i \in Matching : SharedByAll(word_list[i]))
             => \E i \in Matching :
                    SharedByAll(word_list[i]) /\ ret[1] = word_list[i]

\* C19: autocomplete returns the empty string whenever no candidate starts
\* with the query under case-insensitive comparison, including when the
\* candidate list is empty.
C19_NoMatchEmpty ==
    (op = "autocomplete" /\ Matching = {}) =>
        raised = "none" /\ ret = << <<>> >>

\* autocomplete has returned "" for a query no candidate of a list of two
\* starts with
C19_Witness ==
    /\ op = "autocomplete"
    /\ Len(word_list) = 2
    /\ Matching = {}
    /\ ret = << <<>> >>

\* C20: when exactly one candidate starts with the query case-insensitively,
\* autocomplete returns that candidate verbatim, in its original casing even
\* when the query's casing differs, and including any spaces in it.
C20_SingleMatchVerbatim ==
    (op = "autocomplete" /\ Cardinality(Matching) = 1) =>
        /\ raised = "none"
        /\ \A i \in Matching : ret = <<word_list[i]>>

\* the query "a" has been completed to the only match "A " of two candidates
C20_Witness ==
    /\ op = "autocomplete"
    /\ query = <<97>>
    /\ Len(word_list) = 2
    /\ Cardinality(Matching) = 1
    /\ ret = << <<65, 32>> >>

\* the lists that hold the candidates of ws in some order
Reorderings(ws) ==
    {[i \in 1..Len(ws) |-> ws[f[i]]] :
        f \in {g \in [1..Len(ws) -> 1..Len(ws)] :
                \A i, j \in 1..Len(ws) : g[i] = g[j] => i = j}}

\* C21: for every query and every list of candidates, autocomplete produces
\* the identical outcome (the same text, or the same exception) for every
\* permutation of the candidate list.
C21_PermutationInvariant ==
    op = "autocomplete" =>
        \A p \in Reorderings(word_list) :
            /\ autocomplete(query, p).raised = raised
            /\ raised = "none" => ret = <<autocomplete(query, p).value>>

\* a text has been completed over two different matching candidates that
\* were not given in sorted order
C21_Witness ==
    /\ op = "autocomplete"
    /\ Len(word_list) = 2
    /\ Cardinality(Matching) = 2
    /\ sorted(word_list) # word_list
    /\ raised = "none"
    /\ ret # << <<>> >>

\* the matching candidate at position i is the shortest one, the first in
\* lexicographic order among those of its length
Shortest(i) ==
    /\ i \in Matching
    /\ \A j \in Matching :
        \/ Len(word_list[i]) < Len(word_list[j])
        \/ /\ Len(word_list[i]) = Len(word_list[j])
           /\ ~StrLess(word_list[j], word_list[i])

\* C22 as stated: with two or more matching candidates, the text returned
\* is, character for character, a prefix of the shortest matching candidate
\* (length ties broken by lexicographic order).
C22_PrefixOfShortest ==
    (op = "autocomplete" /\ Cardinality(Matching) >= 2 /\ raised = "none") =>
        \A i \in Matching : Shortest(i) => startswith(word_list[i], ret[1])

\* C28 as stated: autocomplete returns a string for every query and every
\* list of candidates; it never fails with an out-of-range index.
C28_NeverIndexError ==
    op = "autocomplete" => (raised = "none" /\ Len(ret) = 1)

---------------------------------------------------------------------------
(* isposint *)

\* most arguments of one call, largest int and largest number of halves of
\* a float that SpecValid passes
MaxValues == 2
MaxInt == 2
MaxHalves == 3

\* a Python value: an int n, a str s, a float of n halves, a list or a
\* tuple of n items, or None
PyInt(n) == [type |-> "int", n |-> n, s |-> <<>>]
PyStr(s) == [type |-> "str", n |-> 0, s |-> s]
PyFloat(n) == [type |-> "float", n |-> n, s |-> <<>>]
PyList(n) == [type |-> "list", n |-> n, s |-> <<>>]
PyTuple(n) == [type |-> "tuple", n |-> n, s |-> <<>>]
PyNone == [type |-> "NoneType", n |-> 0, s |-> <<>>]

\* the entry texts "", " ", "x", "-1", "0", "1", " 1", "10"
EntryTexts == {<<>>, <<32>>, <<120>>, <<45, 49>>, <<48>>, <<49>>,
               <<32, 49>>, <<49, 48>>}

\* the values a caller passes to isposint
PyValues ==
    {PyInt(n) : n \in -1..MaxInt}
    \cup {PyStr(s) : s \in EntryTexts}
    \cup {PyFloat(n) : n \in {h \in -MaxHalves..MaxHalves : h % 2 = 1}}
    \cup {PyList(0), PyList(2), PyTuple(0), PyTuple(2), PyNone}

\* the argument tuples of at most MaxValues values
ValueTuples == UNION {[1..n -> PyValues] : n \in 0..MaxValues}

\* int(value): an int is itself, a str is parsed, a float is truncated
\* towards zero, anything else raises TypeError
int_of(value) ==
    IF value.type = "int" THEN [raised |-> "none", value |-> value.n]
    ELSE IF value.type = "str" THEN int(value.s)
    ELSE IF value.type = "float"
    THEN [raised |-> "none",
          value |-> IF value.n >= 0 THEN value.n \div 2
                    ELSE -((-value.n) \div 2)]
    ELSE [raised |-> "TypeError", value |-> 0]

RECURSIVE isposint_positive(_)
\* isposint asking for value > 0
isposint_positive(vs) ==
    IF vs = <<>> THEN TRUE
    ELSE IF int_of(Head(vs)).raised # "none" THEN FALSE
    ELSE IF int_of(Head(vs)).value <= 0 THEN FALSE
    ELSE isposint_positive(Tail(vs))

RECURSIVE isposint(_)
\* isposint(*values)
isposint(vs) ==
    IF vs = <<>> THEN TRUE
    ELSE IF int_of(Head(vs)).raised # "none" THEN FALSE
    ELSE IF int_of(Head(vs)).value < 0 THEN FALSE
    ELSE isposint(Tail(vs))

\* the arguments of a call, before the call
InitValid ==
    /\ rows = <<>>
    /\ op = "init"
    /\ raised = "none"
    /\ ret = <<>>
    /\ fname = default_fname
    /\ disk = NoFiles
    /\ query = <<>>
    /\ word_list = <<>>
    /\ values \in ValueTuples
    /\ game_panel = NoEntries

\* isposint(*values)
IsPosInt ==
    /\ op' = "isposint"
    /\ raised' = "none"
    /\ ret' = <<isposint(values)>>
    /\ UNCHANGED <<rows, fname, disk, query, word_list, values, game_panel>>

NextValid == IsPosInt

SpecValid == InitValid /\ [][NextValid]_vars

\* an empty or blank string
BlankString(v) ==
    v.type = "str" /\ \A i \in 1..Len(v.s) : v.s[i] = 32

\* a string with a character that is no digit, sign or space
NonNumericString(v) ==
    /\ v.type = "str"
    /\ \E i \in 1..Len(v.s) : ~isdigit(v.s[i]) /\ v.s[i] \notin {32, 43, 45}

\* a string "-d..." of a minus sign and digits that are not all 0
NegativeNumericString(v) ==
    /\ v.type = "str"
    /\ Len(v.s) >= 2
    /\ v.s[1] = 45
    /\ \A i \in 2..Len(v.s) : isdigit(v.s[i])
    /\ \E i \in 2..Len(v.s) : v.s[i] # 48

\* every argument can be converted to an integer and that integer is >= 0
AllNonNegativeIntegers ==
    \A i \in 1..Len(values) :
        int_of(values[i]).raised = "none" /\ int_of(values[i]).value >= 0

\* C23 as stated: isposint returns True exactly when every argument can be
\* converted to an integer and that integer is >= 0; for an empty or blank
\* string, a non-numeric string, a negative number or negative numeric
\* string, a list or a tuple it returns False and does not raise.
C23_IsPosIntAnyNumber ==
    op = "isposint" =>
        /\ raised = "none"
        /\ ret = <<TRUE>> <=> AllNonNegativeIntegers
        /\ (\E i \in 1..Len(values) :
                \/ BlankString(values[i])
                \/ NonNumericString(values[i])
                \/ values[i].type \in {"int", "float"} /\ values[i].n < 0
                \/ NegativeNumericString(values[i])
                \/ values[i].type \in {"list", "tuple"})
            => ret = <<FALSE>>

\* C23: isposint returns True exactly when every argument can be converted
\* to an integer and that integer is >= 0; for an empty or blank string, a
\* non-numeric string, a negative integer or negative numeric string, a
\* list or a tuple it returns False and does not raise.
C23_IsPosInt ==
    op = "isposint" =>
        /\ raised = "none"
        /\ ret = <<TRUE>> <=> AllNonNegativeIntegers
        /\ (\E i \in 1..Len(values) :
                \/ BlankString(values[i])
                \/ NonNumericString(values[i])
                \/ values[i].type = "int" /\ values[i].n < 0
                \/ NegativeNumericString(values[i])
                \/ values[i].type \in {"list", "tuple"})
            => ret = <<FALSE>>

\* isposint(1, "-1") has returned False
C23_Witness ==
    /\ op = "isposint"
    /\ values = <<PyInt(1), PyStr(<<45, 49>>)>>
    /\ ret = <<FALSE>>

---------------------------------------------------------------------------
(* game on a table of up to three zero records, a record being allowed to
   play itself *)

\* most rows of the table and most games of one record under SpecGame
MaxGameRows == 3
MaxPlayed == 2

\* Table(): an empty table
InitGame == Init

\* table.add(name): one more record with zero stats
NewRecord(name) ==
    /\ Len(rows) < MaxGameRows
    /\ rows' = Canon(add(rows, name, <<>>).rows)
    /\ op' = "add"
    /\ raised' = "none"
    /\ ret' = <<>>
    /\ UNCHANGED <<fname, disk, query, word_list, values, game_panel>>

\* game(table, hometeam, awayteam, homegoals, awaygoals)
Play(hometeam, awayteam, homegoals, awaygoals) ==
    LET res == game(rows, hometeam, awayteam, homegoals, awaygoals)
    IN  /\ \A i \in 1..Len(res.rows) : games(res.rows[i]) <= MaxPlayed
        /\ rows' = Canon(res.rows)
        /\ op' = "game"
        /\ raised' = res.raised
        /\ ret' = <<>>
        /\ UNCHANGED <<fname, disk, query, word_list, values, game_panel>>

NextGame ==
    \/ \E name \in Names : NewRecord(name)
    \/ \E h \in Names, a \in Names, hg \in Goals, ag \in Goals :
           Play(h, a, hg, ag)

SpecGame == InitGame /\ [][NextGame]_vars

\* the record that a game of t against itself with goals hg and ag leaves
\* in place of t
PlayedItself(t, hg, ag) ==
    [t EXCEPT !.wins = IF hg = ag THEN @ ELSE @ + 1,
              !.draws = IF hg = ag THEN @ + 2 ELSE @,
              !.losses = IF hg = ag THEN @ ELSE @ + 1,
              !.scored = @ + hg + ag,
              !.conceded = @ + hg + ag]

\* C24: game(table, n, n, hg, ag) with an existing name n does not fail
\* and updates that one record twice: draws + 2 when hg = ag, otherwise
\* wins + 1 and losses + 1; scored and conceded each grow by hg + ag.
C24_SelfGame ==
    [][op' = "game" =>
        \A n \in Names, hg \in Goals, ag \in Goals :
            (Play(n, n, hg, ag) /\ find(rows, n) # 0) =>
                /\ raised' = "none"
                /\ Len(rows') = Len(rows)
                /\ \A i \in 1..Len(rows) :
                       Values(rows')[i] =
                           IF i = find(rows, n)
                           THEN Values(<<PlayedItself(rows[i], hg, ag)>>)[1]
                           ELSE Values(rows)[i]]_vars

\* the only record of the table has played itself once and not drawn
C24_Witness ==
    /\ op = "game"
    /\ raised = "none"
    /\ Len(rows) = 1
    /\ rows[1].wins = 1
    /\ rows[1].losses = 1
    /\ rows[1].draws = 0
    /\ rows[1].scored = 1
    /\ rows[1].conceded = 1

RECURSIVE SumOf(_)
\* the sum of a sequence of integers
SumOf(s) == IF s = <<>> THEN 0 ELSE Head(s) + SumOf(Tail(s))

\* C29: from records with zero stats, after any sequence of successful
\* game() calls with non-negative goals the wins of all records sum to
\* their losses, their scored goals to their conceded goals, and the sum
\* of their draws is even.
C29_Totals ==
    /\ SumOf([i \in 1..Len(rows) |-> rows[i].wins])
           = SumOf([i \in 1..Len(rows) |-> rows[i].losses])
    /\ SumOf([i \in 1..Len(rows) |-> rows[i].scored])
           = SumOf([i \in 1..Len(rows) |-> rows[i].conceded])
    /\ SumOf([i \in 1..Len(rows) |-> rows[i].draws]) % 2 = 0

\* three records after a game, with a win, a draw and a goal among them
C29_Witness ==
    /\ op = "game"
    /\ raised = "none"
    /\ Len(rows) = 3
    /\ SumOf([i \in 1..Len(rows) |-> rows[i].wins]) >= 1
    /\ SumOf([i \in 1..Len(rows) |-> rows[i].draws]) >= 2
    /\ SumOf([i \in 1..Len(rows) |-> rows[i].scored]) >= 1

\* C30: game(table, home, away, hg, ag) changes only the records named
\* home and away: every other record keeps its counters, and the number of
\* rows and their order stay as they were.
C30_GameFrame ==
    [][op' = "game" =>
        \A h \in Names, a \in Names, hg \in Goals, ag \in Goals :
            Play(h, a, hg, ag) =>
                /\ Len(rows') = Len(rows)
                /\ \A i \in 1..Len(rows) :
                       /\ rows'[i].name = rows[i].name
                       /\ rows'[i].obj = rows[i].obj
                       /\ rows[i].name \notin {h, a} =>
                              Values(rows')[i] = Values(rows)[i]]_vars

\* a game between the second and the third of three records: the first
\* has not played and still stands above the winner
C30_Witness ==
    /\ op = "game"
    /\ raised = "none"
    /\ Len(rows) = 3
    /\ games(rows[1]) = 0
    /\ rows[2].wins = 1
    /\ rows[3].losses = 1

---------------------------------------------------------------------------
(* The controller: new_team, edit_team, submit_game_handler and
   read_model_from_file on the model of a running Controller *)

\* most rows of the model and most games of one record under SpecCtl
MaxCtlRows == 2
MaxCtlPlayed == 2

\* Controller.__init__: self.fname
example_fname == "example-table.csv"

\* the files a user opens: the one the controller starts from and one more
CtlPaths == {example_fname, "./other.csv"}

\* a file without lines
EmptyFile == [exists |-> TRUE, text |-> <<>>, saved |-> <<>>]

\* a file whose records are not in ranking order:
\* "A,0,0,0,0,0\na,1,0,0,1,0\n"
UnrankedFile ==
    [exists |-> TRUE,
     text |-> written(<<Team(<<65>>, <<>>).team,
                        Team(<<97>>, <<1, 0, 0, 1, 0>>).team>>),
     saved |-> <<>>]

\* a file with a stat that is no integer: "A,x,0,0,0,0\n"
BrokenFile == [exists |-> TRUE, text |-> NonIntegerFile, saved |-> <<>>]

\* what the other path holds
CtlFiles == {NoFile, UnrankedFile, BrokenFile}

\* the stats given to new_team and edit_team: five entries "0", five
\* entries of which one is no integer, no stats at all
CtlStats == {ZeroTexts, [ZeroTexts EXCEPT ![2] = <<120>>], <<>>}

\* the names typed into the team panel: "A", "a"
CtlNames == {<<65>>, <<97>>}

\* the texts of a name entry of the game panel: a name or nothing
NameEntries == CtlNames \cup {<<>>}

\* the texts of a goal entry: "", " ", "0", "1", "-1", "x"
GoalEntries == {<<>>, <<32>>, <<48>>, <<49>>, <<45, 49>>, <<120>>}

\* non_empty(*args) of str arguments, str(item) of a str being item
non_empty(args) == \A i \in 1..Len(args) : rstrip(lstrip(args[i])) # <<>>

\* Controller.exists(*team_names)
exists(rs, team_names) ==
    \A i \in 1..Len(team_names) : find(rs, team_names[i]) # 0

\* Controller.insert_new_game: game(...) updates the model, then
\* update_table_line(team_instance) evaluates team.goals_to_string(), which
\* Team does not have, so AttributeError is raised before sort_table_view
insert_new_game(rs, hometeam, awayteam, homegoals, awaygoals) ==
    LET res == game(rs, hometeam, awayteam, homegoals, awaygoals)
    IN  IF res.raised # "none" THEN res
        ELSE [raised |-> "AttributeError", rows |-> res.rows]

\* submit_game_handler letting a team play against itself
submit_game_handler_self(rs, panel) ==
    LET hometeam == panel.hometeam_text
        awayteam == panel.awayteam_text
        homegoals_str == panel.homegoal_text
        awaygoals_str == panel.awaygoal_text
        res == insert_new_game(rs, hometeam, awayteam,
                               int(homegoals_str).value,
                               int(awaygoals_str).value)
    IN  IF ~non_empty(<<hometeam, awayteam, homegoals_str, awaygoals_str>>)
        THEN [raised |-> "none", rows |-> rs, panel |-> panel]
        ELSE IF ~exists(rs, <<hometeam, awayteam>>)
        THEN [raised |-> "none", rows |-> rs, panel |-> panel]
        ELSE IF ~isposint(<<PyStr(homegoals_str), PyStr(awaygoals_str)>>)
        THEN [raised |-> "none", rows |-> rs, panel |-> panel]
        ELSE IF res.raised # "none"
        THEN [raised |-> res.raised, rows |-> res.rows, panel |-> panel]
        ELSE [raised |-> "none", rows |-> res.rows, panel |-> NoEntries]

\* Controller.submit_game_handler(event): the four texts are read from the
\* game panel, and the entries are emptied when insert_new_game returns
submit_game_handler(rs, panel) ==
    LET hometeam == panel.hometeam_text
        awayteam == panel.awayteam_text
        homegoals_str == panel.homegoal_text
        awaygoals_str == panel.awaygoal_text
        res == insert_new_game(rs, hometeam, awayteam,
                               int(homegoals_str).value,
                               int(awaygoals_str).value)
    IN  IF ~non_empty(<<hometeam, awayteam, homegoals_str, awaygoals_str>>)
        THEN [raised |-> "none", rows |-> rs, panel |-> panel]
        ELSE IF ~exists(rs, <<hometeam, awayteam>>)
        THEN [raised |-> "none", rows |-> rs, panel |-> panel]
        ELSE IF hometeam = awayteam
        THEN [raised |-> "none", rows |-> rs, panel |-> panel]
        ELSE IF ~isposint(<<PyStr(homegoals_str), PyStr(awaygoals_str)>>)
        THEN [raised |-> "none", rows |-> rs, panel |-> panel]
        ELSE IF res.raised # "none"
        THEN [raised |-> res.raised, rows |-> res.rows, panel |-> panel]
        ELSE [raised |-> "none", rows |-> res.rows, panel |-> NoEntries]

\* new_team adding the team without looking the name up
new_team_no_lookup(rs, name, stats) ==
    LET res == add_str(rs, name, stats)
    IN  IF res.raised # "none"
        THEN [raised |-> res.raised, rows |-> rs, ret |-> <<>>]
        ELSE [raised |-> "AttributeError", rows |-> res.rows, ret |-> <<>>]

\* Controller.new_team(name, *stats) with a str name: a name that is found
\* returns False; otherwise model.add(name, *stats), then
\* insert_team_in_view(team) evaluates team.goals_to_string() and raises
\* AttributeError before sort_table_view
new_team(rs, name, stats) ==
    IF find(rs, name) # 0
    THEN [raised |-> "none", rows |-> rs, ret |-> <<FALSE>>]
    ELSE LET res == add_str(rs, name, stats)
         IN  IF res.raised # "none"
             THEN [raised |-> res.raised, rows |-> rs, ret |-> <<>>]
             ELSE [raised |-> "AttributeError", rows |-> res.rows,
                   ret |-> <<>>]

\* Controller.read_model_from_file(fname): Table(fname) reads the file into
\* a new table, which becomes self.model only if no line fails; the table is
\* sorted by sortf; new_table_view then calls insert_team_in_view for the
\* first record, which raises AttributeError
read_model_from_file(rs, d, path) ==
    LET res == read(d, path)
        ranked == sort(res.rows, sortf_keys(res.rows))
    IN  IF res.raised # "none" THEN [raised |-> res.raised, rows |-> rs]
        ELSE [raised |-> IF ranked = <<>> THEN "none" ELSE "AttributeError",
              rows |-> ranked]

\* Controller(): example-table.csv has been read and shown, which only a
\* file without records allows
InitCtl ==
    /\ rows = <<>>
    /\ op = "init"
    /\ raised = "none"
    /\ ret = <<>>
    /\ fname = example_fname
    /\ \E f \in CtlFiles :
           disk = [p \in CtlPaths |->
                       IF p = example_fname THEN EmptyFile ELSE f]
    /\ query = <<>>
    /\ word_list = <<>>
    /\ values = <<>>
    /\ game_panel = NoEntries

\* controller.new_team(name, *stats)
NewTeam(name, stats) ==
    LET res == new_team(rows, name, stats)
    IN  /\ Len(res.rows) <= MaxCtlRows
        /\ rows' = Canon(res.rows)
        /\ op' = "new_team"
        /\ raised' = res.raised
        /\ ret' = res.ret
        /\ UNCHANGED <<fname, disk, query, word_list, values, game_panel>>

\* the user types text into one entry of the game panel
TypeEntry(entry, text) ==
    /\ game_panel' = [game_panel EXCEPT ![entry] = text]
    /\ op' = "entry"
    /\ raised' = "none"
    /\ ret' = <<>>
    /\ UNCHANGED <<rows, fname, disk, query, word_list, values>>

\* the submit button of the game panel
SubmitGame ==
    LET res == submit_game_handler(rows, game_panel)
    IN  /\ \A i \in 1..Len(res.rows) : games(res.rows[i]) <= MaxCtlPlayed
        /\ rows' = Canon(res.rows)
        /\ op' = "submit_game_handler"
        /\ raised' = res.raised
        /\ ret' = <<>>
        /\ game_panel' = res.panel
        /\ UNCHANGED <<fname, disk, query, word_list, values>>

\* controller.read_model_from_file(path)
OpenFile(path) ==
    LET res == read_model_from_file(rows, disk, path)
    IN  /\ rows' = Canon(res.rows)
        /\ op' = "read_model_from_file"
        /\ raised' = res.raised
        /\ ret' = <<>>
        /\ fname' = IF read(disk, path).raised = "none" THEN path ELSE fname
        /\ UNCHANGED <<disk, query, word_list, values, game_panel>>

NextCtl ==
    \/ \E name \in CtlNames, stats \in CtlStats : NewTeam(name, stats)
    \/ \E name \in CtlNames, stats \in CtlStats : EditTeam(name, stats)
    \/ \E text \in NameEntries :
           TypeEntry("hometeam_text", text) \/ TypeEntry("awayteam_text", text)
    \/ \E text \in GoalEntries :
           TypeEntry("homegoal_text", text) \/ TypeEntry("awaygoal_text", text)
    \/ SubmitGame
    \/ \E path \in CtlPaths : OpenFile(path)

SpecCtl == InitCtl /\ [][NextCtl]_vars

\* the rows are in ranking order
InRankingOrder(rs) ==
    \A i \in 1..Len(rs) : \A j \in (i + 1)..Len(rs) :
        RankedBefore(rs[i], rs[j])

\* C25 as stated: after every update made through the controller (new_team,
\* edit_team, insert_new_game) and after a file is opened
\* (read_model_from_file) the rows of the model are sorted by sortf.
C25_RankedAfterUpdate ==
    [][(\/ /\ op' \in {"new_team", "edit_team", "submit_game_handler"}
           /\ rows' # rows
        \/ /\ op' = "read_model_from_file"
           /\ raised' \in {"none", "AttributeError"})
       => InRankingOrder(rows')]_vars

\* the text of an entry is a non-negative integer
NonNegativeText(s) == int(s).raised = "none" /\ int(s).value >= 0

\* the four entries of the game panel describe a game the claim allows
ValidGame(rs, panel) ==
    /\ panel.hometeam_text # <<>>
    /\ panel.awayteam_text # <<>>
    /\ panel.homegoal_text # <<>>
    /\ panel.awaygoal_text # <<>>
    /\ \E i \in 1..Len(rs) : rs[i].name = panel.hometeam_text
    /\ \E i \in 1..Len(rs) : rs[i].name = panel.awayteam_text
    /\ panel.hometeam_text # panel.awayteam_text
    /\ NonNegativeText(panel.homegoal_text)
    /\ NonNegativeText(panel.awaygoal_text)

\* C26: submit_game_handler applies a game to the model only when the four
\* entries are non-empty, both names exist in the table, the names differ
\* and both goal entries are non-negative integers; in every other case the
\* model is unchanged. So no record is updated as home and away of one game.
C26_SubmitGame ==
    [][(op' = "submit_game_handler" /\ SubmitGame) =>
           /\ ValidGame(rows, game_panel) =>
                  rows' = Canon(game(rows, game_panel.hometeam_text,
                                     game_panel.awayteam_text,
                                     int(game_panel.homegoal_text).value,
                                     int(game_panel.awaygoal_text).value).rows)
           /\ ~ValidGame(rows, game_panel) => rows' = rows
           /\ \A i \in 1..Len(rows) :
                  games(rows'[i]) <= games(rows[i]) + 1]_vars

\* a submitted game has been applied: the first record lost it, the second
\* won it
C26_Witness ==
    /\ op = "submit_game_handler"
    /\ raised = "AttributeError"
    /\ Len(rows) = 2
    /\ rows[1].losses = 1
    /\ rows[2].wins = 1

\* no two records of rs have the same name
DistinctNames(rs) ==
    \A i \in 1..Len(rs) : \A j \in 1..Len(rs) :
        rs[i].name = rs[j].name => i = j

\* no stats, or five entries that are integers
StatsForm(stats) ==
    \/ stats = <<>>
    \/ Len(stats) = 5 /\ \A k \in 1..5 : int(stats[k]).raised = "none"

\* C27: new_team(name, stats) with a name present in the model leaves the
\* rows unchanged and returns False; with a name not present it appends
\* exactly one record with that name. So new_team never makes two records
\* with the same name.
C27_NewTeam ==
    [][op' = "new_team" =>
        \A name \in CtlNames, stats \in CtlStats :
            (NewTeam(name, stats) /\ StatsForm(stats)) =>
                /\ IF \E i \in 1..Len(rows) : rows[i].name = name
                   THEN rows' = rows /\ ret' = <<FALSE>>
                   ELSE /\ Len(rows') = Len(rows) + 1
                        /\ SubSeq(rows', 1, Len(rows)) = rows
                        /\ rows'[Len(rows')].name = name
                /\ DistinctNames(rows) => DistinctNames(rows')]_vars

\* new_team has returned False for a name of a table of two records
C27_Witness ==
    /\ op = "new_team"
    /\ ret = <<FALSE>>
    /\ Len(rows) = 2
    /\ DistinctNames(rows)

===========================================================================
